---- MODULE Spec2Model ----
(***************************************************************************)
(* A model of custom_components/remote/harmony.py: the Harmony platform    *)
(* setup (async_setup_platform and the DEVICES registry), the shutdown of  *)
(* the managers, and one HarmonyRemote entity with its adapter callbacks,  *)
(* its grace timers, its commands, its sync service and its config file,   *)
(* written on the event loop and in executor threads.                      *)
(*                                                                         *)
(* Strings the code inspects character by character (activity and device   *)
(* identifiers, activity and device names) are sequences of one-character  *)
(* strings.  Delays are in tenths of a second.                             *)
(***************************************************************************)
EXTENDS Integers, Sequences, FiniteSets, TLC

VARIABLES
    DEVICES,           \* harmony.py:35, the module-level list of HarmonyRemote
    hass_data,         \* hass.data, the keys this platform uses
    lastSetup,         \* history: the last async_setup_platform call and its outcome
    current_activity,  \* self._current_activity
    state,             \* self._state
    available,         \* self._available
    default_activity,  \* self._default_activity
    delay_secs,        \* self._delay_secs
    client_activity,   \* adapter: self._client.current_activity, <<id, name>>
    activities,        \* adapter: the config's activities, id -> name
    devices,           \* adapter: the config's devices, id -> name
    json_config,       \* adapter: self._client.json_config (a version number)
    adapterCalls,      \* the calls that reached the adapter, oldest first
    pushes,            \* the schedule_update_ha_state calls, oldest first
    file,              \* the content of the file at self._config_path
    writes,            \* the write_config_file executions, oldest first
    executor,          \* the async_add_executor_job jobs that have not finished
    sleepers,          \* got_disconnected coroutines suspended in asyncio.sleep
    hist,              \* history: callbacks delivered, the current unavailability
    request,           \* the service call on its way to the entity, or NoRequest
    bus,               \* hass.bus: the listeners for EVENT_HOMEASSISTANT_STOP
    closes,            \* the calls of the adapters' close(), oldest first
    lastOp             \* history: the last handler that ran, with its inputs

vars == <<DEVICES, hass_data, lastSetup, current_activity, state, available,
          default_activity, delay_secs, client_activity, activities, devices,
          json_config, adapterCalls, pushes, file, writes, executor, sleepers,
          hist, request, bus, closes, lastOp>>

setupVars == <<DEVICES, hass_data, lastSetup>>
entityVars == <<current_activity, state, available, default_activity, delay_secs>>
adapterVars == <<client_activity, activities, devices, json_config>>
hostVars == <<pushes, file, writes, executor>>
busVars == <<bus, closes>>

-----------------------------------------------------------------------------
(* Values: a Python value is a record whose one field names its type *)

None == [none |-> TRUE]
PyStr(s) == [str |-> s]
PyInt(n) == [int |-> n]
PyBool(b) == [bool |-> b]
IsNone(v) == DOMAIN v = {"none"}
IsStr(v) == DOMAIN v = {"str"}
IsInt(v) == DOMAIN v = {"int"}

\* an absent discovery_info or config (falsy, like None and {})
Nothing == <<>>
Truthy(d) == DOMAIN d # {}

\* harmony.py:33
DEFAULT_PORT == 8088
\* homeassistant.components.remote.DEFAULT_DELAY_SECS = 0.4, in tenths of a second
DEFAULT_DELAY_SECS == 4

PowerOff == <<"P", "o", "w", "e", "r", "O", "f", "f">>

Range(f) == {f[x] : x \in DOMAIN f}

RECURSIVE SeqsUpTo(_, _)
SeqsUpTo(S, n) ==
    IF n = 0 THEN {<<>>}
    ELSE LET shorter == SeqsUpTo(S, n - 1)
         IN  shorter \cup {Append(s, c) : s \in {t \in shorter : Len(t) = n - 1}, c \in S}

-----------------------------------------------------------------------------
(* Platform setup: async_setup_platform, harmony.py:54-110 *)

MaxDevices == 2
MaxCache == 1

HubNames == {"A", "B"}
HubHosts == {"h1", "h2"}
NoHost == "no host"
OtherPort == DEFAULT_PORT + 1
\* what a static entry gives besides its name and host: port, activity, delay
Profiles ==
    { [port |-> DEFAULT_PORT, activity |-> None, delay_secs |-> DEFAULT_DELAY_SECS],
      [port |-> DEFAULT_PORT, activity |-> PyStr(<<"T">>), delay_secs |-> 10],
      [port |-> OtherPort, activity |-> PyStr(<<"T">>), delay_secs |-> 10] }

\* a validated platform config (PLATFORM_SCHEMA); host is NoHost when CONF_HOST is absent
StaticConfigs ==
    { [name |-> n, host |-> h, port |-> p.port, activity |-> p.activity,
       delay_secs |-> p.delay_secs] :
        n \in HubNames, h \in HubHosts \cup {NoHost}, p \in Profiles }

DiscoveryInfos == { [name |-> n, host |-> h] : n \in HubNames, h \in HubHosts }

\* harmony.py:36
CONF_DEVICE_CACHE == "harmony_device_cache"

\* hass.data[CONF_DEVICE_CACHE] after lines 60-61
CacheList(data) ==
    IF CONF_DEVICE_CACHE \in DOMAIN data THEN data[CONF_DEVICE_CACHE] ELSE <<>>

\* hass.data with the cache list replaced
WithCache(data, cache) == [k \in {CONF_DEVICE_CACHE} |-> cache]

\* lines 65-67: the cached configs with the discovered name, by position
OverrideHits(cache, name) == {i \in 1..Len(cache) : cache[i].name = name}

\* lines 65-67: next(...), the first of them
Override(cache, name) ==
    cache[CHOOSE i \in OverrideHits(cache, name) :
              \A j \in OverrideHits(cache, name) : i <= j]

\* lines 69-74: port
DiscoveredPort(cache, name) ==
    IF OverrideHits(cache, name) = {} THEN DEFAULT_PORT ELSE Override(cache, name).port

\* line 58 alone: a discovered hub has no default activity
DiscoveredActivityNone(cache, name) == None

\* lines 58, 72: activity
DiscoveredActivity(cache, name) ==
    IF OverrideHits(cache, name) = {} THEN None ELSE Override(cache, name).activity

\* lines 70, 73: delay_secs
DiscoveredDelay(cache, name) ==
    IF OverrideHits(cache, name) = {} THEN DEFAULT_DELAY_SECS
    ELSE Override(cache, name).delay_secs

\* line 82 with the hub name taking part in the comparison
AlreadyKnownByName(devs, name, host, port) ==
    \E i \in 1..Len(devs) :
        devs[i].name = name /\ devs[i].host = host /\ devs[i].port = port

\* line 82: host[1:] in ((h.host, h.port) for h in DEVICES)
AlreadyKnown(devs, name, host, port) ==
    \E i \in 1..Len(devs) : devs[i].host = host /\ devs[i].port = port

\* HarmonyRemote.__init__, lines 149-166: the fields the registry holds
HarmonyRemote(name, host, port, activity, delay) ==
    [name |-> name, host |-> host, port |-> port, activity |-> activity,
     delay_secs |-> delay]

\* lines 97-110: construct and register; ValueError/AttributeError -> PlatformNotReady
Construct(kind, name, host, port, activity, delay, cache, constructOk) ==
    /\ hass_data' = WithCache(hass_data, cache)
    /\ IF constructOk
       THEN /\ DEVICES' = Append(DEVICES, HarmonyRemote(name, host, port, activity, delay))
            /\ lastSetup' = [kind |-> kind, name |-> name, host |-> host,
                             result |-> "added"]
       ELSE /\ DEVICES' = DEVICES
            /\ lastSetup' = [kind |-> kind, name |-> name, host |-> host,
                             result |-> "PlatformNotReady"]

\* lines 54-110; config and discovery_info are records, or Nothing
async_setup_platform(config, discovery_info, constructOk) ==
    LET cache == CacheList(hass_data)
    IN  IF Truthy(discovery_info)
        THEN LET port == DiscoveredPort(cache, discovery_info.name)
             IN  IF AlreadyKnown(DEVICES, discovery_info.name, discovery_info.host, port)
                 THEN /\ hass_data' = WithCache(hass_data, cache)
                      /\ DEVICES' = DEVICES
                      /\ lastSetup' = [kind |-> "discovery", name |-> discovery_info.name,
                                       host |-> discovery_info.host, result |-> "known"]
                 ELSE Construct("discovery", discovery_info.name, discovery_info.host,
                                port, DiscoveredActivity(cache, discovery_info.name),
                                DiscoveredDelay(cache, discovery_info.name), cache,
                                constructOk)
        ELSE IF config.host # NoHost
        THEN Construct("static", config.name, config.host, config.port,
                       config.activity, config.delay_secs, cache, constructOk)
        ELSE /\ hass_data' = WithCache(hass_data, Append(cache, config))
             /\ DEVICES' = DEVICES
             /\ lastSetup' = [kind |-> "static", name |-> config.name, host |-> NoHost,
                              result |-> "cached"]

SetupStatic ==
    \E config \in StaticConfigs, constructOk \in BOOLEAN :
        /\ IF config.host # NoHost
           THEN Len(DEVICES) < MaxDevices
           ELSE Len(CacheList(hass_data)) < MaxCache
        /\ async_setup_platform(config, Nothing, constructOk)
        /\ UNCHANGED <<busVars, entityVars, adapterVars, hostVars, adapterCalls,
                       sleepers, hist, request, lastOp>>

SetupDiscovery ==
    \E info \in DiscoveryInfos, constructOk \in BOOLEAN :
        /\ \/ Len(DEVICES) < MaxDevices
           \/ AlreadyKnown(DEVICES, info.name, info.host,
                           DiscoveredPort(CacheList(hass_data), info.name))
        /\ async_setup_platform(Nothing, info, constructOk)
        /\ UNCHANGED <<busVars, entityVars, adapterVars, hostVars, adapterCalls,
                       sleepers, hist, request, lastOp>>

-----------------------------------------------------------------------------
(* Strings, as str.isdigit, int and str.strip treat them *)

Digits == {"0", "1", "2", "3", "4", "5", "6", "7", "8", "9"}
Whitespace == {" "}

DigitValue(c) ==
    CASE c = "0" -> 0 [] c = "1" -> 1 [] c = "2" -> 2 [] c = "3" -> 3 [] c = "4" -> 4
      [] c = "5" -> 5 [] c = "6" -> 6 [] c = "7" -> 7 [] c = "8" -> 8 [] c = "9" -> 9

\* str.isdigit: at least one character, and all of them digits
isdigit(s) == Len(s) > 0 /\ \A i \in 1..Len(s) : s[i] \in Digits

RECURSIVE DecimalValue(_)
DecimalValue(s) ==
    IF s = <<>> THEN 0
    ELSE 10 * DecimalValue(SubSeq(s, 1, Len(s) - 1)) + DigitValue(s[Len(s)])

\* int(s), for the strings line 268 lets through: digits, or "-1"
int(s) == IF s[1] = "-" THEN 0 - DecimalValue(Tail(s)) ELSE DecimalValue(s)

RECURSIVE lstrip(_)
lstrip(s) == IF s # <<>> /\ s[1] \in Whitespace THEN lstrip(Tail(s)) ELSE s

RECURSIVE rstrip(_)
rstrip(s) ==
    IF s # <<>> /\ s[Len(s)] \in Whitespace THEN rstrip(SubSeq(s, 1, Len(s) - 1)) ELSE s

\* str.strip
strip(s) == rstrip(lstrip(s))

\* the truth value of an optional string: None and "" are false
PyTruthy(v) == IsStr(v) /\ v.str # <<>>

\* kwargs.get(key, default)
KwGet(kwargs, key, default) == IF key \in DOMAIN kwargs THEN kwargs[key] ELSE default

-----------------------------------------------------------------------------
(* The adapter's lookups in its current config (aioharmony, HarmonyAPI) *)

\* id -> name, None when the id is not in the config
get_activity_name(config, id) == IF id \in DOMAIN config THEN PyStr(config[id]) ELSE None

\* name -> id, None when no entry has the name
get_activity_id(config, name) ==
    IF \E id \in DOMAIN config : config[id] = name
    THEN PyInt(CHOOSE id \in DOMAIN config : config[id] = name)
    ELSE None

get_device_name(config, id) == IF id \in DOMAIN config THEN PyStr(config[id]) ELSE None

get_device_id(config, name) ==
    IF \E id \in DOMAIN config : config[id] = name
    THEN PyInt(CHOOSE id \in DOMAIN config : config[id] = name)
    ELSE None

-----------------------------------------------------------------------------
(* HarmonyRemote: the entity's handlers as functions of its state.  self    *)
(* is the record of the fields and of the host effects a handler can        *)
(* change; raised tells that an exception left the handler.                 *)

Self ==
    [current_activity |-> current_activity, state |-> state, available |-> available,
     pushes |-> pushes, file |-> file, writes |-> writes, executor |-> executor,
     raised |-> FALSE]

Commit(self) ==
    /\ current_activity' = self.current_activity
    /\ state' = self.state
    /\ available' = self.available
    /\ pushes' = self.pushes
    /\ file' = self.file
    /\ writes' = self.writes
    /\ executor' = self.executor

\* Entity.schedule_update_ha_state(), called with the entity as it is then
schedule_update_ha_state(self, by) ==
    [self EXCEPT !.pushes = Append(@, [by |-> by, available |-> self.available])]

\* lines 223-229
new_activity(self, activity_info) ==
    schedule_update_ha_state(
        [self EXCEPT !.current_activity = activity_info[2],
                     !.state = PyBool(activity_info[2] # PyStr(PowerOff))],
        "new_activity")

\* the executor's jobs after an open(path, 'w+') of another thread: a job that
\* holds the file open has had it truncated under its handle
Overlap(jobs, io) ==
    [i \in 1..Len(jobs) |->
        IF jobs[i].phase = "opened" /\ io # "open fails"
        THEN [jobs[i] EXCEPT !.overlapped = TRUE]
        ELSE jobs[i]]

\* lines 353-364 without the except clause: the IOError leaves the method
write_config_file_raises(self, snapshot, io) ==
    [self EXCEPT
        !.file = CASE io = "ok" -> [content |-> snapshot, complete |-> TRUE]
                   [] io = "open fails" -> @
                   [] io = "dump fails" -> [content |-> snapshot, complete |-> FALSE],
        !.writes = Append(@, [content |-> snapshot, io |-> io, thread |-> "loop",
                              during |-> {j.by : j \in {k \in Range(self.executor) :
                                                            k.phase = "opened"}}]),
        !.executor = Overlap(@, io),
        !.raised = (io # "ok")]

\* lines 353-364, called on the event loop: open(path, 'w+') truncates the
\* file, json.dump fills it; an IOError of either is logged.  during holds the
\* executor jobs that are inside write_config_file at that moment.
write_config_file(self, snapshot, io) ==
    [self EXCEPT
        !.file = CASE io = "ok" -> [content |-> snapshot, complete |-> TRUE]
                   [] io = "open fails" -> @
                   [] io = "dump fails" -> [content |-> snapshot, complete |-> FALSE],
        !.writes = Append(@, [content |-> snapshot, io |-> io, thread |-> "loop",
                              during |-> {j.by : j \in {k \in Range(self.executor) :
                                                            k.phase = "opened"}}]),
        !.executor = Overlap(@, io)]

\* lines 231-239 counting a fetched config as a sign of a connection
new_config_marking_available(self, activity_info, snapshot, io) ==
    LET s1 == new_activity(self, activity_info)
        s2 == schedule_update_ha_state(
                  [s1 EXCEPT !.current_activity = activity_info[2],
                             !.state = PyBool(activity_info[2] # PyStr(PowerOff)),
                             !.available = TRUE],
                  "new_config")
    IN  write_config_file(s2, snapshot, io)

\* lines 231-239
new_config(self, activity_info, snapshot, io) ==
    LET s1 == new_activity(self, activity_info)
        s2 == schedule_update_ha_state(
                  [s1 EXCEPT !.current_activity = activity_info[2],
                             !.state = PyBool(activity_info[2] # PyStr(PowerOff))],
                  "new_config")
    IN  write_config_file(s2, snapshot, io)

\* lines 241-247 with line 247 ahead of the refresh
got_connected_marking_first(self, activity_info, snapshot, io) ==
    IF ~self.available
    THEN new_config([self EXCEPT !.available = TRUE], activity_info, snapshot, io)
    ELSE self

\* lines 241-247
got_connected(self, activity_info, snapshot, io) ==
    LET s1 == IF ~self.available
              THEN new_config(self, activity_info, snapshot, io)
              ELSE self
    IN  IF s1.raised THEN s1 ELSE [s1 EXCEPT !.available = TRUE]

-----------------------------------------------------------------------------
(* The adapter's callbacks and the grace timers *)

\* harmony.py:255, asyncio.sleep(10), in seconds
Grace == 10

\* how many activity, config and disconnect callbacks the adapter delivers
MaxCallbacks == 2

\* what self._client.current_activity can be: <<id, name>>
ActivityInfos ==
    { <<PyInt(0 - 1), PyStr(PowerOff)>>, <<PyInt(1), PyStr(<<"T">>)>>, <<None, None>> }

\* how a write of the config file can end
IoOutcomes == {"ok", "open fails", "dump fails"}

Min(a, b) == IF a < b THEN a ELSE b

\* the adapter reports a new current activity: new_activity, lines 223-229
ActivityChanged ==
    \E info \in ActivityInfos :
        /\ hist.callbacks < MaxCallbacks
        /\ client_activity' = info
        /\ Commit(new_activity(Self, info))
        /\ hist' = [hist EXCEPT !.callbacks = @ + 1]
        /\ lastOp' = [op |-> "new_activity"]
        /\ UNCHANGED <<busVars, setupVars, default_activity, delay_secs, activities,
                       devices, json_config, adapterCalls, sleepers, request>>

\* the adapter has fetched a changed config: new_config, lines 231-239
ConfigUpdated ==
    \E info \in ActivityInfos, io \in IoOutcomes :
        /\ hist.callbacks < MaxCallbacks
        /\ json_config' = json_config + 1
        /\ hist' = [hist EXCEPT !.callbacks = @ + 1]
        /\ client_activity' = info
        /\ LET after == new_config(Self, info, json_config + 1, io)
           IN  /\ Commit(after)
               /\ lastOp' = [op |-> "new_config", io |-> io, raised |-> after.raised]
        /\ UNCHANGED <<busVars, setupVars, default_activity, delay_secs, activities,
                       devices, adapterCalls, sleepers, request>>

\* the connect callback: got_connected, lines 241-247
GotConnected ==
    \E io \in IF available THEN {"ok"} ELSE IoOutcomes :
        /\ LET after == got_connected(Self, client_activity, json_config, io)
           IN  /\ Commit(after)
               /\ lastOp' = [op |-> "got_connected", io |-> io, raised |-> after.raised,
                             refreshed |-> ~available]
        /\ sleepers' = [i \in 1..Len(sleepers) |->
                           IF sleepers[i].remaining > 0
                           THEN [sleepers[i] EXCEPT !.reconnected = TRUE]
                           ELSE sleepers[i]]
        /\ hist' = [hist EXCEPT !.age = 0, !.gracePushes = 0]
        /\ UNCHANGED <<busVars, setupVars, default_activity, delay_secs, adapterVars,
                       adapterCalls, request>>

\* the disconnect callback up to its await: got_disconnected, lines 249-255
GotDisconnected ==
    /\ hist.callbacks < MaxCallbacks
    /\ available' = FALSE
    /\ sleepers' = Append(sleepers, [remaining |-> Grace, reconnected |-> FALSE])
    /\ hist' = [callbacks |-> hist.callbacks + 1,
                age |-> IF available THEN 0 ELSE hist.age,
                gracePushes |-> IF available THEN 0 ELSE hist.gracePushes]
    /\ lastOp' = [op |-> "got_disconnected"]
    /\ UNCHANGED <<busVars, setupVars, current_activity, state, default_activity,
                   delay_secs, adapterVars, adapterCalls, hostVars, request>>

\* lines 257-259: what a got_disconnected coroutine does when its sleep ends
AfterSleep(self, sleeper) ==
    IF ~self.available
    THEN [self EXCEPT !.pushes = Append(@, [by |-> "grace", available |-> self.available,
                                            reconnected |-> sleeper.reconnected])]
    ELSE self

\* a got_disconnected coroutine resumes after asyncio.sleep(10)
Wake ==
    \E i \in 1..Len(sleepers) :
        /\ sleepers[i].remaining = 0
        /\ LET after == AfterSleep(Self, sleepers[i])
           IN  /\ Commit(after)
               /\ hist' = [hist EXCEPT !.gracePushes =
                              @ + Len(after.pushes) - Len(pushes)]
               /\ lastOp' = [op |-> "wake", pushed |-> Len(after.pushes) > Len(pushes),
                             reconnected |-> sleepers[i].reconnected]
        /\ sleepers' = [j \in 1..(Len(sleepers) - 1) |->
                           IF j < i THEN sleepers[j] ELSE sleepers[j + 1]]
        /\ UNCHANGED <<busVars, setupVars, default_activity, delay_secs, adapterVars,
                       adapterCalls, request>>

\* one second passes; a sleep that has ended resumes before the next second
Tick ==
    /\ \A i \in 1..Len(sleepers) : sleepers[i].remaining > 0
    /\ sleepers # <<>> \/ (~available /\ hist.age <= Grace)
    /\ sleepers' = [i \in 1..Len(sleepers) |->
                       [sleepers[i] EXCEPT !.remaining = @ - 1]]
    /\ hist' = [hist EXCEPT !.age = IF available THEN @ ELSE Min(@ + 1, Grace + 1)]
    /\ lastOp' = [op |-> "tick"]
    /\ UNCHANGED <<busVars, setupVars, entityVars, adapterVars, adapterCalls, hostVars,
                   request>>

-----------------------------------------------------------------------------
(* The entity's commands: turn_on, turn_off, send_command *)

MaxLen == 2
MaxRepeats == 2

\* the characters of the identifiers a caller passes
InputChars == {"1", "-", " ", "T"}
InputStrings == SeqsUpTo(InputChars, MaxLen)

\* lines 267-276 without the strip() of line 276
ResolveActivityNoStrip(activity, config) ==
    LET byId == IF /\ isdigit(activity) \/ activity = <<"-", "1">>
                   /\ PyTruthy(get_activity_name(config, int(activity)))
                THEN PyStr(activity)
                ELSE None
    IN  IF IsNone(byId) THEN get_activity_id(config, activity) ELSE byId

\* lines 267-276: activity_id, from the activity string and the adapter's config
ResolveActivity(activity, config) ==
    LET byId == IF /\ isdigit(activity) \/ activity = <<"-", "1">>
                   /\ PyTruthy(get_activity_name(config, int(activity)))
                THEN PyStr(activity)
                ELSE None
    IN  IF IsNone(byId) THEN get_activity_id(config, strip(activity)) ELSE byId

\* lines 304-314: device_id, from the device string and the adapter's config
ResolveDevice(device, config) ==
    LET byId == IF isdigit(device) /\ PyTruthy(get_device_name(config, int(device)))
                THEN PyStr(device)
                ELSE None
    IN  IF IsNone(byId) THEN get_device_id(config, strip(device)) ELSE byId

\* lines 327-331: SendCommandDevice(device=device, command=single_command, delay=0)
SendCommandDevice(device, command) ==
    [device |-> device, command |-> command, delay |-> 0]

\* float(delay_secs), line 334
PyFloat(d) == [float |-> d]

\* lines 326-334 with the delay appended between the commands only
OneRepeatDelayBetween(device, command, delay) ==
    LET Step(i) == IF i % 2 = 1
                   THEN SendCommandDevice(device, command[(i + 1) \div 2])
                   ELSE PyFloat(delay)
    IN  IF delay > 0
        THEN [i \in 1..(2 * Len(command) - 1) |-> Step(i)]
        ELSE [i \in 1..Len(command) |-> SendCommandDevice(device, command[i])]

\* lines 326-334: the steps one repeat appends for the commands, in order
OneRepeat(device, command, delay) ==
    LET Step(i) == IF i % 2 = 1
                   THEN SendCommandDevice(device, command[(i + 1) \div 2])
                   ELSE PyFloat(delay)
    IN  IF delay > 0
        THEN [i \in 1..(2 * Len(command)) |-> Step(i)]
        ELSE [i \in 1..Len(command) |-> SendCommandDevice(device, command[i])]

\* lines 324-334 with the loop over range(num_repeats) run once
CommandListOnce(device, command, num_repeats, delay) ==
    IF num_repeats <= 0 THEN <<>> ELSE OneRepeat(device, command, delay)

\* lines 324-334: snd_cmnd_list
RECURSIVE CommandList(_, _, _, _)
CommandList(device, command, num_repeats, delay) ==
    IF num_repeats <= 0 THEN <<>>
    ELSE OneRepeat(device, command, delay)
             \o CommandList(device, command, num_repeats - 1, delay)

\* lines 278-281 letting an unresolved activity through to the adapter
AbandonTurnOnNever(activity_id) == FALSE

\* lines 278-281: the test that abandons turn_on
AbandonTurnOn(activity_id) == IsNone(activity_id)

\* lines 261-287; kwargs holds ATTR_ACTIVITY or nothing
async_turn_on(kwargs) ==
    LET activity == KwGet(kwargs, "activity", default_activity)
    IN  IF PyTruthy(activity)
        THEN LET activity_id == ResolveActivity(activity.str, activities)
             IN  /\ lastOp' = [op |-> "turn_on", activity |-> activity,
                               activity_id |-> activity_id]
                 /\ IF AbandonTurnOn(activity_id)
                    THEN UNCHANGED <<adapterCalls, state>>
                    ELSE /\ adapterCalls' = Append(adapterCalls,
                                [call |-> "start_activity", arg |-> activity_id])
                         /\ state' = PyBool(TRUE)
        ELSE /\ lastOp' = [op |-> "turn_on", activity |-> activity,
                           activity_id |-> None]
             /\ UNCHANGED <<adapterCalls, state>>

\* lines 289-292
async_turn_off ==
    /\ adapterCalls' = Append(adapterCalls, [call |-> "power_off"])
    /\ lastOp' = [op |-> "turn_off"]

\* lines 295-345; kwargs holds ATTR_NUM_REPEATS and, or not, ATTR_DEVICE and
\* ATTR_DELAY_SECS
async_send_command(command, kwargs) ==
    LET device == KwGet(kwargs, "device", None)
    IN  IF IsNone(device)
        THEN /\ lastOp' = [op |-> "send_command", device |-> device,
                           device_id |-> None, command |-> command, kwargs |-> kwargs]
             /\ UNCHANGED adapterCalls
        ELSE LET device_id == ResolveDevice(device.str, devices)
                 num_repeats == KwGet(kwargs, "num_repeats", None)
                 delay == KwGet(kwargs, "delay_secs", delay_secs)
             IN  /\ lastOp' = [op |-> "send_command", device |-> device,
                               device_id |-> device_id, command |-> command,
                               kwargs |-> kwargs]
                 /\ IF IsNone(device_id)
                    THEN UNCHANGED adapterCalls
                    ELSE adapterCalls' = Append(adapterCalls,
                             [call |-> "send_commands",
                              arg |-> CommandList(device, command, num_repeats, delay)])

\* hass.async_add_executor_job(self.write_config_file), lines 182 and 351: the
\* job waits for a thread of the executor; by names the coroutine awaiting it
async_add_executor_job(self, by) ==
    [self EXCEPT !.executor = Append(@, [by |-> by, phase |-> "queued",
                                         overlapped |-> FALSE])]

\* lines 169-185 up to the await of line 182, or to the end when the config
\* file exists: connect, then write the config file or take over the activity
async_added_to_hass(self, activity_info) ==
    IF IsNone(self.file)
    THEN async_add_executor_job(self, "startup")
    ELSE new_activity(self, activity_info)

\* lines 211-221; the adapter holds a config once it has connected
async_update(self, activity_info) ==
    [self EXCEPT !.current_activity = activity_info[2],
                 !.state = PyBool(activity_info[2] # PyStr(PowerOff))]

\* the coroutine that awaited an executor job goes on: async_added_to_hass at
\* line 185; sync returns and _apply_service, line 132, has the entity polled
\* and pushed (schedule_update_ha_state(True))
Resume(self, by, activity_info) ==
    IF by = "startup"
    THEN new_activity(self, activity_info)
    ELSE schedule_update_ha_state(async_update(self, activity_info), "update")

NoRequest == [service |-> "none"]

\* line 177 with one listener for the platform, which the last entity sets
async_listen_once_replacing(b, owner) ==
    [b EXCEPT !.listeners = <<owner>>, !.added = @ \cup {owner}]

\* self.hass.bus.async_listen_once(EVENT_HOMEASSISTANT_STOP, shutdown), line
\* 177, as the first step of async_added_to_hass: the entity is added and its
\* own shutdown waits for the event
async_listen_once(b, owner) ==
    [b EXCEPT !.listeners = Append(@, owner), !.added = @ \cup {owner}]

\* the owner of the listener of the one entity the callbacks and commands are
\* modelled for; the managers of DEVICES are owners by their position there
Entity == 0

\* the host calls async_added_to_hass once the entity is added
Startup ==
    /\ lastOp.op = "init"
    /\ bus' = async_listen_once(bus, Entity)
    /\ Commit(async_added_to_hass(Self, client_activity))
    /\ adapterCalls' = Append(adapterCalls, [call |-> "connect"])
    /\ lastOp' = [op |-> "added_to_hass"]
    /\ UNCHANGED <<closes, setupVars, default_activity, delay_secs, adapterVars,
                   sleepers, hist, request>>

\* the host calls async_added_to_hass of a manager that async_setup_platform
\* has put in DEVICES (lines 101-105): lines 171-180 for that manager
AddedToHass ==
    \E i \in 1..Len(DEVICES) :
        /\ i \notin bus.added
        /\ bus' = async_listen_once(bus, i)
        /\ UNCHANGED <<closes, setupVars, entityVars, adapterVars, hostVars,
                       adapterCalls, sleepers, hist, request, lastOp>>

\* EVENT_HOMEASSISTANT_STOP fires, once: the bus takes every once-listener off
\* and schedules it as a job of its own
Stop ==
    /\ ~bus.fired
    /\ bus' = [bus EXCEPT !.fired = TRUE, !.listeners = <<>>, !.tasks = bus.listeners,
                          !.atStop = bus.added]
    /\ UNCHANGED <<closes, setupVars, entityVars, adapterVars, hostVars,
                   adapterCalls, sleepers, hist, request, lastOp>>

\* lines 171-175 calling nothing
shutdown_closing_nothing(calls, owner, raised) == calls

\* lines 171-175, shutdown(event): await self._client.close(), which returns
\* or raises
shutdown(calls, owner, raised) ==
    Append(calls, [call |-> "close", owner |-> owner, raised |-> raised])

\* a scheduled shutdown listener runs; what it raises stays in its job
RunShutdown ==
    \E k \in 1..Len(bus.tasks), raised \in BOOLEAN :
        /\ closes' = shutdown(closes, bus.tasks[k], raised)
        /\ bus' = [bus EXCEPT !.tasks = [j \in 1..(Len(bus.tasks) - 1) |->
                                  IF j < k THEN bus.tasks[j] ELSE bus.tasks[j + 1]]]
        /\ UNCHANGED <<setupVars, entityVars, adapterVars, hostVars, adapterCalls,
                       sleepers, hist, request, lastOp>>

\* the harmony.sync service reaches the entity: _sync_service, _apply_service
\* and sync, lines 120-136 and 347-351, up to the await of line 351
Sync ==
    /\ hist.callbacks < MaxCallbacks
    /\ adapterCalls' = Append(adapterCalls, [call |-> "sync"])
    /\ Commit(async_add_executor_job(Self, "sync"))
    /\ hist' = [hist EXCEPT !.callbacks = @ + 1]
    /\ lastOp' = [op |-> "sync"]
    /\ UNCHANGED <<busVars, setupVars, default_activity, delay_secs, adapterVars,
                   sleepers, request>>

\* a file that open(path, 'w+') has truncated holds nothing of any snapshot
NoContent == 0 - 1
Truncated == [content |-> NoContent, complete |-> FALSE]

Remove(seq, i) ==
    [j \in 1..(Len(seq) - 1) |-> IF j < i THEN seq[j] ELSE seq[j + 1]]

\* the executor jobs other than job i that are inside write_config_file
Others(jobs, i) ==
    {jobs[j].by : j \in {k \in 1..Len(jobs) : k # i /\ jobs[k].phase = "opened"}}

\* write_config_file in an executor thread, line 359: open(path, 'w+')
\* truncates the file under every handle, and the handles then write to the
\* one file
ExecutorOpened(self, i) ==
    [self EXCEPT !.file = Truncated,
                 !.executor = [Overlap(@, "ok") EXCEPT
                                  ![i].phase = "opened",
                                  ![i].overlapped = Others(self.executor, i) # {}]]

\* write_config_file in an executor thread comes to its end, lines 360-364:
\* the open has failed, or json.dump has run with the adapter's config of that
\* moment; a dump through a handle whose file was truncated by another open
\* can leave a mix of the two writers' output
ExecutorDone(self, i, snapshot, io, mixed) ==
    [self EXCEPT
        !.file = CASE io = "ok" -> [content |-> snapshot, complete |-> ~mixed]
                   [] io = "open fails" -> @
                   [] io = "dump fails" -> [content |-> snapshot, complete |-> FALSE],
        !.writes = Append(@, [content |-> snapshot, io |-> io, thread |-> "executor",
                              during |-> Others(self.executor, i)]),
        !.executor = Remove(@, i)]

\* an executor thread takes a job and runs write_config_file up to the open
ExecutorOpen ==
    \E i \in 1..Len(executor), ok \in BOOLEAN :
        /\ executor[i].phase = "queued"
        /\ IF ok
           THEN Commit(ExecutorOpened(Self, i))
           ELSE Commit(Resume(ExecutorDone(Self, i, json_config, "open fails", FALSE),
                              executor[i].by, client_activity))
        /\ lastOp' = [op |-> "executor", by |-> executor[i].by,
                      io |-> IF ok THEN "opened" ELSE "open fails"]
        /\ UNCHANGED <<busVars, setupVars, default_activity, delay_secs, adapterVars,
                       adapterCalls, sleepers, hist, request>>

\* the thread dumps the config and the job ends; the awaiting coroutine goes on
ExecutorDump ==
    \E i \in 1..Len(executor), io \in {"ok", "dump fails"}, mixed \in BOOLEAN :
        /\ executor[i].phase = "opened"
        /\ mixed => (io = "ok" /\ executor[i].overlapped)
        /\ Commit(Resume(ExecutorDone(Self, i, json_config, io, mixed),
                         executor[i].by, client_activity))
        /\ lastOp' = [op |-> "executor", by |-> executor[i].by, io |-> io]
        /\ UNCHANGED <<busVars, setupVars, default_activity, delay_secs, adapterVars,
                       adapterCalls, sleepers, hist, request>>

\* the remote.turn_on service reaches the entity
TurnOn ==
    /\ request.service = "turn_on"
    /\ async_turn_on(request.kwargs)
    /\ request' = NoRequest
    /\ UNCHANGED <<busVars, setupVars, current_activity, available, default_activity,
                   delay_secs, adapterVars, hostVars, sleepers, hist>>

\* the remote.turn_off service reaches the entity
TurnOff ==
    /\ request.service = "turn_off"
    /\ async_turn_off
    /\ request' = NoRequest
    /\ UNCHANGED <<busVars, setupVars, entityVars, adapterVars, hostVars, sleepers,
                   hist>>

\* the remote.send_command service reaches the entity
SendCommand ==
    /\ request.service = "send_command"
    /\ async_send_command(request.command, request.kwargs)
    /\ request' = NoRequest
    /\ UNCHANGED <<busVars, setupVars, entityVars, adapterVars, hostVars, sleepers,
                   hist>>

\* what a caller of turn_on passes
TurnOnKwargs == {<<>>} \cup {[activity |-> PyStr(a)] : a \in InputStrings}

\* what a caller of send_command passes as the device
DeviceKwargs == {<<>>} \cup {[device |-> PyStr(a)] : a \in InputStrings}

Commands == {<<"c1">>, <<"c1", "c2">>}
\* the delays a caller passes, in tenths of a second
Delays == {0, 10}

\* what a caller of send_command passes besides the commands
SendKwargs ==
    { device @@ delay @@ [num_repeats |-> n] :
        device \in DeviceKwargs,
        delay \in {<<>>} \cup {[delay_secs |-> d] : d \in Delays},
        n \in 0..MaxRepeats }

\* the service calls of the commands' specification: send_command with one
\* command, once, with the entity's delay
CommandRequests ==
    {[service |-> "turn_on", kwargs |-> k] : k \in TurnOnKwargs}
      \cup {[service |-> "turn_off"]}
      \cup {[service |-> "send_command", command |-> <<"c1">>,
             kwargs |-> device @@ [num_repeats |-> 1]] : device \in DeviceKwargs}

SendRequests ==
    {[service |-> "send_command", command |-> c, kwargs |-> k] :
        c \in Commands, k \in SendKwargs}

-----------------------------------------------------------------------------
(* Specifications *)

InitSetup ==
    /\ DEVICES = <<>>
    /\ hass_data = <<>>
    /\ lastSetup = [kind |-> "none", name |-> "", host |-> "", result |-> "none"]

\* HarmonyRemote.__init__, lines 149-166
InitEntity ==
    /\ current_activity = None
    /\ state = None
    /\ available = TRUE
    /\ pushes = <<>>
    /\ writes = <<>>
    /\ file = None
    /\ executor = <<>>
    /\ adapterCalls = <<>>
    /\ sleepers = <<>>
    /\ hist = [callbacks |-> 0, age |-> 0, gracePushes |-> 0]
    /\ bus = [listeners |-> <<>>, tasks |-> <<>>, fired |-> FALSE, added |-> {},
              atStop |-> {}]
    /\ closes = <<>>
    /\ lastOp = [op |-> "init"]

\* one entity and its adapter's callbacks
Init ==
    /\ InitSetup
    /\ InitEntity
    /\ default_activity = None
    /\ delay_secs = DEFAULT_DELAY_SECS
    /\ client_activity \in ActivityInfos
    /\ activities = <<>>
    /\ devices = <<>>
    /\ json_config = 0
    /\ request = NoRequest

Next ==
    \/ ActivityChanged
    \/ ConfigUpdated
    \/ GotConnected
    \/ GotDisconnected
    \/ Wake
    \/ Tick

Spec == Init /\ [][Next]_vars

\* the platform's setup calls
InitRegistry ==
    /\ InitSetup
    /\ InitEntity
    /\ default_activity = None
    /\ delay_secs = DEFAULT_DELAY_SECS
    /\ client_activity = <<None, None>>
    /\ activities = <<>>
    /\ devices = <<>>
    /\ json_config = 0
    /\ request = NoRequest

NextRegistry ==
    \/ SetupStatic
    \/ SetupDiscovery

SpecRegistry == InitRegistry /\ [][NextRegistry]_vars

\* the managers a platform setup can have put in DEVICES
Managers ==
    { HarmonyRemote(n, h, DEFAULT_PORT, None, DEFAULT_DELAY_SECS) :
        n \in HubNames, h \in HubHosts }

\* the platform is set up with some managers, none of them added yet
InitShutdown ==
    /\ DEVICES \in SeqsUpTo(Managers, MaxDevices)
    /\ hass_data = WithCache(<<>>, <<>>)
    /\ lastSetup = [kind |-> "none", name |-> "", host |-> "", result |-> "none"]
    /\ InitEntity
    /\ default_activity = None
    /\ delay_secs = DEFAULT_DELAY_SECS
    /\ client_activity = <<None, None>>
    /\ activities = <<>>
    /\ devices = <<>>
    /\ json_config = 0
    /\ request = NoRequest

NextShutdown ==
    \/ AddedToHass
    \/ Stop
    \/ RunShutdown

\* the event loop runs every job it has been given
SpecShutdown == InitShutdown /\ [][NextShutdown]_vars /\ WF_vars(RunShutdown)

\* one entity with its callbacks, its grace timers, its startup and the sync
\* service
NextSync ==
    \/ Startup
    \/ Sync
    \/ ExecutorOpen
    \/ ExecutorDump
    \/ ActivityChanged
    \/ ConfigUpdated
    \/ GotConnected
    \/ GotDisconnected
    \/ Wake
    \/ Tick

SpecSync == Init /\ [][NextSync]_vars

-----------------------------------------------------------------------------
(* Claims about the grace timer *)

\* C1, as stated: a grace timer whose disconnection was followed by a
\* got_connected within 10 seconds sends no push when it expires.
C1_NoPushAfterQuickReconnect ==
    \A i \in 1..Len(pushes) : pushes[i].by = "grace" => ~pushes[i].reconnected

\* C2, as stated: in one stretch of unavailability the grace timers send at
\* most one push, and exactly one once the stretch has lasted more than 10
\* seconds.
C2_ExactlyOneGracePush ==
    /\ hist.gracePushes <= 1
    /\ (~available /\ hist.age > Grace) => hist.gracePushes = 1

-----------------------------------------------------------------------------
(* Claims about the registry *)

HostPorts(devs) == {<<devs[i].host, devs[i].port>> : i \in 1..Len(devs)}

\* C3, as stated: DEVICES never holds two managers with the same (host, port).
C3_OneManagerPerHostPort ==
    \A i, j \in 1..Len(DEVICES) :
        i # j => <<DEVICES[i].host, DEVICES[i].port>> # <<DEVICES[j].host, DEVICES[j].port>>

\* C4: a discovery event whose (host, port), the port being the matching
\* cached entry's or else the default, is that of a registered manager ends
\* without error, adds no manager and leaves the registry and the cache as
\* they were, whatever the discovered name.
C4_KnownDiscoveryDropped ==
    [][ ( /\ lastSetup'.kind = "discovery"
          /\ <<lastSetup'.host,
               DiscoveredPort(CacheList(hass_data), lastSetup'.name)>>
                 \in HostPorts(DEVICES) )
        => /\ lastSetup'.result = "known"
           /\ DEVICES' = DEVICES
           /\ CacheList(hass_data') = CacheList(hass_data) ]_vars

\* C4's case: a known (host, port) discovered under a name no manager there has
C4_Witness ==
    /\ lastSetup.kind = "discovery"
    /\ lastSetup.result = "known"
    /\ \E i \in 1..Len(DEVICES) :
           DEVICES[i].host = lastSetup.host /\ DEVICES[i].name # lastSetup.name

-----------------------------------------------------------------------------
(* Claims about the config file *)

\* C5: every new_config, called as the adapter's callback or by got_connected
\* after an unavailability, runs write_config_file once with the adapter's
\* config of that moment; whether or not the write fails, the activity, the
\* on/off state and the availability end as the handler set them and no
\* exception leaves the handler.
C5_OneWritePerNewConfig ==
    [][ /\ lastOp'.op = "new_config"
           => /\ Len(writes') = Len(writes) + 1
              /\ writes'[Len(writes')].content = json_config'
              /\ current_activity' = client_activity'[2]
              /\ state' = PyBool(client_activity'[2] # PyStr(PowerOff))
              /\ available' = available
              /\ ~lastOp'.raised
        /\ (lastOp'.op = "got_connected" /\ ~available)
           => /\ Len(writes') = Len(writes) + 1
              /\ writes'[Len(writes')].content = json_config'
              /\ current_activity' = client_activity'[2]
              /\ state' = PyBool(client_activity'[2] # PyStr(PowerOff))
              /\ available' = TRUE
              /\ ~lastOp'.raised ]_vars

\* C5's case: a new_config callback whose write failed
C5_Witness ==
    /\ lastOp.op = "new_config"
    /\ lastOp.io # "ok"
    /\ writes # <<>>
    /\ writes[Len(writes)].io = lastOp.io

-----------------------------------------------------------------------------
(* Specifications of the commands *)

ActivityIds == {0 - 1, 11}
ActivityNames == {PowerOff, <<"T">>, <<"1">>}
DeviceIds == {11}
DeviceNames == {<<"T">>, <<"1">>}

\* the configs a hub can hold: ids with names, no name twice
Configs(ids, names) ==
    UNION { {f \in [D -> names] : \A x, y \in D : x # y => f[x] # f[y]} :
            D \in SUBSET ids }

\* the activities of a hub: -1 is PowerOff, when the config holds it
ActivityConfigs ==
    {f \in Configs(ActivityIds, ActivityNames) :
        \A id \in DOMAIN f : (id = 0 - 1) <=> (f[id] = PowerOff)}

\* an entity just constructed, over a hub with some config and activity, and a
\* service call on its way
InitCommands ==
    /\ InitSetup
    /\ InitEntity
    /\ default_activity \in {None, PyStr(<<"T">>)}
    /\ delay_secs = DEFAULT_DELAY_SECS
    /\ client_activity \in ActivityInfos
    /\ activities \in ActivityConfigs
    /\ devices \in Configs(DeviceIds, DeviceNames)
    /\ json_config = 0
    /\ request \in CommandRequests

NextCommands ==
    \/ Startup
    \/ ExecutorOpen
    \/ ExecutorDump
    \/ TurnOn
    \/ TurnOff
    \/ SendCommand

SpecCommands == InitCommands /\ [][NextCommands]_vars

\* an entity just constructed and a send_command call on its way
InitSend ==
    /\ InitSetup
    /\ InitEntity
    /\ default_activity = None
    /\ delay_secs \in {0, DEFAULT_DELAY_SECS}
    /\ client_activity = <<None, None>>
    /\ activities = <<>>
    /\ devices \in Configs(DeviceIds, DeviceNames)
    /\ json_config = 0
    /\ request \in SendRequests

NextSend == SendCommand

SpecSend == InitSend /\ [][NextSend]_vars

-----------------------------------------------------------------------------
(* Claims about the commands.  What an identifier should resolve to is     *)
(* stated here from the identifier and the config, apart from the          *)
(* handlers' own resolution.                                               *)

\* t is a with its surrounding whitespace taken away
IsTrimOf(t, a) ==
    \E i \in 1..(Len(a) + 1), j \in 0..Len(a) :
        /\ j >= i - 1
        /\ t = SubSeq(a, i, j)
        /\ \A k \in 1..(i - 1) : a[k] \in Whitespace
        /\ \A k \in (j + 1)..Len(a) : a[k] \in Whitespace
        /\ j >= i => (a[i] \notin Whitespace /\ a[j] \notin Whitespace)

\* all digits, or exactly "-1"
Numeric(a) == (a # <<>> /\ \A i \in 1..Len(a) : a[i] \in Digits) \/ a = <<"-", "1">>

\* a is numeric and the id of an entry of the config
ValidId(a, config) == Numeric(a) /\ \E id \in DOMAIN config : id = int(a)

\* a, trimmed, is the name of an entry of the config
NameMatch(a, config) == \E id \in DOMAIN config : IsTrimOf(config[id], a)
IdOfName(a, config) == CHOOSE id \in DOMAIN config : IsTrimOf(config[id], a)

StartActivityCalls ==
    {i \in 1..Len(adapterCalls) : adapterCalls[i].call = "start_activity"}
SendCommandsCalls ==
    {i \in 1..Len(adapterCalls) : adapterCalls[i].call = "send_commands"}

\* turn_on has run on an activity string
TurnedOnWith(a) ==
    lastOp.op = "turn_on" /\ IsStr(lastOp.activity) /\ lastOp.activity.str = a

C7_MinusOnePowersOff ==
    (TurnedOnWith(<<"-", "1">>) /\ DOMAIN activities # {}) =>
        \E i \in 1..Len(adapterCalls) :
            \/ adapterCalls[i].call = "power_off"
            \/ /\ adapterCalls[i].call = "start_activity"
               /\ adapterCalls[i].arg \in {PyStr(<<"-", "1">>), PyInt(0 - 1)}

\* send_command has been given a device that resolved, with these arguments
Sent ==
    /\ lastOp.op = "send_command"
    /\ ~IsNone(lastOp.device_id)
SentRepeats == lastOp.kwargs.num_repeats
SentDelay ==
    IF "delay_secs" \in DOMAIN lastOp.kwargs THEN lastOp.kwargs.delay_secs ELSE delay_secs
SentBatch == adapterCalls[Len(adapterCalls)].arg
IsSendOf(step, command) == "command" \in DOMAIN step /\ step.command = command
IsDelayOf(step, d) == step = PyFloat(d)

\* C8, as stated: two commands, N >= 1 repeats and a delay D > 0 give 4N - 1
\* steps, the last one the send of the second command.
C8_NoTrailingDelay ==
    (Sent /\ Len(lastOp.command) = 2 /\ SentRepeats >= 1 /\ SentDelay > 0)
        => /\ Len(SentBatch) = 4 * SentRepeats - 1
           /\ IsSendOf(SentBatch[Len(SentBatch)], lastOp.command[2])

\* C8, amended: two commands, N >= 1 repeats and a delay D > 0 give 4N steps:
\* sends and delays alternate, c1 and c2 in turn, and the last step is the
\* delay after the send of the second command.
C8_TrailingDelay ==
    (Sent /\ Len(lastOp.command) = 2 /\ SentRepeats >= 1 /\ SentDelay > 0)
        => /\ Len(SentBatch) = 4 * SentRepeats
           /\ \A i \in 1..Len(SentBatch) :
                  CASE i % 4 = 1 -> IsSendOf(SentBatch[i], lastOp.command[1])
                    [] i % 4 = 3 -> IsSendOf(SentBatch[i], lastOp.command[2])
                    [] OTHER -> IsDelayOf(SentBatch[i], SentDelay)

\* C8's case: two commands sent twice with a delay
C8_Witness ==
    /\ Sent
    /\ Len(lastOp.command) = 2
    /\ SentRepeats = 2
    /\ SentDelay > 0
    /\ Len(SentBatch) = 8

\* C9: a send_command whose device resolves submits one batch: for each
\* repeat, for each command in order, the send of that command, followed by a
\* delay of D when D > 0 and by nothing when D = 0.
C9_OneBatch ==
    Sent =>
        LET k == Len(lastOp.command)
            CommandAt(n) == lastOp.command[((n - 1) % k) + 1]
        IN  /\ SendCommandsCalls = {Len(adapterCalls)}
            /\ IF SentDelay > 0
               THEN /\ Len(SentBatch) = 2 * SentRepeats * k
                    /\ \A i \in 1..Len(SentBatch) :
                           IF i % 2 = 1
                           THEN IsSendOf(SentBatch[i], CommandAt((i + 1) \div 2))
                           ELSE IsDelayOf(SentBatch[i], SentDelay)
               ELSE /\ Len(SentBatch) = SentRepeats * k
                    /\ \A i \in 1..Len(SentBatch) :
                           IsSendOf(SentBatch[i], CommandAt(i))

\* C9's case: two commands sent twice with no delay
C9_Witness ==
    /\ Sent
    /\ Len(lastOp.command) = 2
    /\ SentRepeats = 2
    /\ SentDelay = 0
    /\ Len(SentBatch) = 4

\* the activity turn_on works on: the argument, else the default activity
RequestedActivity ==
    IF "activity" \in DOMAIN request.kwargs THEN request.kwargs.activity
    ELSE default_activity

\* a is numeric and the id of a device (for a device, "-1" is no id)
ValidDeviceId(a, config) ==
    a # <<>> /\ (\A i \in 1..Len(a) : a[i] \in Digits) /\ int(a) \in DOMAIN config

\* C10: a turn_on whose activity does not resolve, or that has neither an
\* activity argument nor a default activity, and a send_command whose device
\* does not resolve, are given up: no call reaches the adapter, the request is
\* not kept for a retry, and the activity, the on/off state and the
\* availability stay as they were.
C10_UnresolvedAbandoned ==
    [][ ( \/ /\ request.service = "turn_on"
             /\ \/ IsNone(RequestedActivity)
                \/ /\ ~ValidId(RequestedActivity.str, activities)
                   /\ ~NameMatch(RequestedActivity.str, activities)
          \/ /\ request.service = "send_command"
             /\ "device" \in DOMAIN request.kwargs
             /\ ~ValidDeviceId(request.kwargs.device.str, devices)
             /\ ~NameMatch(request.kwargs.device.str, devices) )
        => ( request' # request
             => /\ request' = NoRequest
                /\ adapterCalls' = adapterCalls
                /\ UNCHANGED <<current_activity, state, available>> ) ]_vars

\* C10's case: an activity that did not resolve, on an entity that knows its
\* current activity
C10_Witness ==
    /\ lastOp.op = "turn_on"
    /\ IsStr(lastOp.activity)
    /\ lastOp.activity.str # <<>>
    /\ IsNone(lastOp.activity_id)
    /\ ~IsNone(current_activity)
    /\ request = NoRequest

-----------------------------------------------------------------------------
(* Claims about the on/off state *)

\* C11, as stated: after every step the stored on/off state is true exactly
\* when the current activity is neither unknown nor PowerOff, and no step
\* changes the stored on/off state and leaves the current activity as it was.
C11_StateFollowsActivity ==
    [][ /\ (state' = PyBool(TRUE))
              <=> (current_activity' \notin {None, PyStr(PowerOff)})
        /\ (state' # state) => (current_activity' # current_activity) ]_vars

-----------------------------------------------------------------------------
(* Claims about the writes of the config file *)

\* C12, as stated: at every moment, also during a write and after a write
\* that failed, the config file is absent or holds one complete snapshot.
C12_FileAbsentOrComplete ==
    IsNone(file) \/ file.complete

-----------------------------------------------------------------------------
(* Claims about the shutdown *)

ClosesOf(owner) == {k \in 1..Len(closes) : closes[k].owner = owner}

\* C13: once the shutdown event has fired, the close of the adapter is
\* eventually called for every manager that had been added, and at no time has
\* a manager's close been called twice; a close that raises stops no other.
C13_EveryManagerClosedOnce ==
    /\ [](\A o \in bus.added : Cardinality(ClosesOf(o)) <= 1)
    /\ [](bus.fired => <>(\A o \in bus.atStop : Cardinality(ClosesOf(o)) = 1))

\* C13's case: two managers were added, the first close raised and another
\* manager's close was called after it
C13_Witness ==
    /\ bus.fired
    /\ Cardinality(bus.atStop) >= 2
    /\ Len(closes) >= 2
    /\ closes[1].raised
    /\ closes[2].owner # closes[1].owner

-----------------------------------------------------------------------------
(* Claims about the cached static entries *)

\* the positions of the cached entries with the name of the last setup call
CachedFor(cache, name) == {i \in 1..Len(cache) : cache[i].name = name}

\* C14: a static entry without a host is appended to the cache and adds no
\* manager; a discovery that adds a manager gives it the activity, the delay
\* and the port of the first cached entry with the discovered name, and
\* without such an entry no activity, the default delay and the default port.
C14_OverrideApplied ==
    [][ LET cache == CacheList(hass_data)
            after == CacheList(hass_data')
            hits == CachedFor(cache, lastSetup'.name)
            new == DEVICES'[Len(DEVICES')]
        IN  /\ (lastSetup'.kind = "static" /\ lastSetup'.host = NoHost)
               => /\ DEVICES' = DEVICES
                  /\ Len(after) = Len(cache) + 1
                  /\ SubSeq(after, 1, Len(cache)) = cache
                  /\ after[Len(after)].name = lastSetup'.name
            /\ (lastSetup'.kind = "discovery" /\ lastSetup'.result = "added")
               => /\ Len(DEVICES') = Len(DEVICES) + 1
                  /\ new.name = lastSetup'.name
                  /\ new.host = lastSetup'.host
                  /\ IF hits = {}
                     THEN /\ new.activity = None
                          /\ new.delay_secs = DEFAULT_DELAY_SECS
                          /\ new.port = DEFAULT_PORT
                     ELSE \E i \in hits :
                              /\ \A j \in hits : i <= j
                              /\ new.activity = cache[i].activity
                              /\ new.delay_secs = cache[i].delay_secs
                              /\ new.port = cache[i].port ]_vars

\* C14's case: a discovery has added a manager with the activity, delay and
\* port of a cached entry, none of them the default
C14_Witness ==
    /\ lastSetup.kind = "discovery"
    /\ lastSetup.result = "added"
    /\ CachedFor(CacheList(hass_data), lastSetup.name) # {}
    /\ DEVICES[Len(DEVICES)].name = lastSetup.name
    /\ DEVICES[Len(DEVICES)].port = OtherPort
    /\ DEVICES[Len(DEVICES)].activity = PyStr(<<"T">>)
    /\ DEVICES[Len(DEVICES)].delay_secs # DEFAULT_DELAY_SECS

\* C15, as stated: a discovery that has used a cached entry to construct a
\* manager takes that entry out of the cache, so that no later discovery finds
\* it.
C15_OverrideConsumed ==
    [][ LET cache == CacheList(hass_data)
            after == CacheList(hass_data')
            hits == CachedFor(cache, lastSetup'.name)
        IN  (lastSetup'.kind = "discovery" /\ lastSetup'.result = "added" /\ hits # {})
               => \E i \in hits :
                      /\ \A j \in hits : i <= j
                      /\ after = SubSeq(cache, 1, i - 1)
                                     \o SubSeq(cache, i + 1, Len(cache)) ]_vars

-----------------------------------------------------------------------------
(* Claims about the availability *)

\* C16: a got_connected that finds the manager unavailable takes over the
\* adapter's current activity, asks for the observer pushes and writes the
\* config file once, all of it while the manager still counts as unavailable,
\* and ends available; a got_connected that finds it available changes nothing
\* of the activity, the pushes and the file.
C16_RefreshBeforeAvailable ==
    [][ lastOp'.op = "got_connected"
           => IF ~available
              THEN /\ current_activity' = client_activity[2]
                   /\ Len(pushes') > Len(pushes)
                   /\ \A i \in (Len(pushes) + 1)..Len(pushes') : ~pushes'[i].available
                   /\ Len(writes') = Len(writes) + 1
                   /\ writes'[Len(writes')].content = json_config
                   /\ available'
              ELSE /\ current_activity' = current_activity
                   /\ state' = state
                   /\ pushes' = pushes
                   /\ writes' = writes
                   /\ file' = file
                   /\ available' ]_vars

\* C16's case: the grace timer had expired and pushed, and the got_connected
\* after it has refreshed and written the file
C16_Witness ==
    /\ lastOp.op = "got_connected"
    /\ available
    /\ \E i \in 1..Len(pushes) : pushes[i].by = "grace"
    /\ pushes[Len(pushes)].by = "new_config"
    /\ ~pushes[Len(pushes)].available
    /\ writes # <<>>

-----------------------------------------------------------------------------
(* Claims about where the config file is written and what the steps carry *)

\* C17, as stated: every execution of write_config_file, whatever called it,
\* runs in a thread of the executor and none on the event loop.
C17_EveryWriteOffloaded ==
    \A i \in 1..Len(writes) : writes[i].thread = "executor"

\* C18, as stated: every send-step of a batch that send_command has handed to
\* the adapter carries the device ID that the device identifier was resolved
\* to.
C18_StepsCarryResolvedId ==
    Sent
        => \A i \in 1..Len(SentBatch) :
               "command" \in DOMAIN SentBatch[i]
                   => SentBatch[i].device = lastOp.device_id

-----------------------------------------------------------------------------
(* Claims about what changes the availability *)

\* C19: a manager is available when it is constructed, whether or not its
\* adapter has connected; the only step that makes an available manager
\* unavailable is got_disconnected, and the only step that makes an
\* unavailable manager available is got_connected.
C19_OnlyConnectionCallbacks ==
    /\ available = TRUE
    /\ [][ /\ (available /\ ~available') => lastOp'.op = "got_disconnected"
           /\ (~available /\ available') => lastOp'.op = "got_connected" ]_vars

\* C19's case: the manager has been unavailable, a new_config has run
\* meanwhile, and a got_connected has made it available
C19_Witness ==
    /\ available
    /\ lastOp.op = "got_connected"
    /\ lastOp.refreshed
    /\ \E i \in 1..(Len(pushes) - 2) :
           pushes[i].by = "new_config" /\ ~pushes[i].available

-----------------------------------------------------------------------------
(* Claims about concurrent writes of the config file *)

\* the executor jobs that are inside write_config_file
Writing == {i \in 1..Len(executor) : executor[i].phase = "opened"}

\* C20, as stated: at no time are two executions of write_config_file in
\* progress: no two executor jobs are inside it at once, and no execution
\* has run while another one was inside it.
C20_WritesNeverOverlap ==
    /\ Cardinality(Writing) <= 1
    /\ \A i \in 1..Len(writes) : writes[i].during = {}

====
